---------------------------- MODULE Spec2Model ----------------------------
(***************************************************************************)
(* Missing-data analysis of src/EDA/missing_values.py:                     *)
(*   analyze_group_differences, visualize_group_differences and            *)
(*   analyze_missing_patterns (the copy in src/eda/missing_values.py is    *)
(*   the same text as the third);                                          *)
(* the overview of src/eda/analysis.py: initial_data_overview;             *)
(* the environment of src/setup.py: mount_google_drive,                    *)
(*   install_requirements and configure_environment.                       *)
(*                                                                         *)
(* The state is the caller's DataFrame, the files under the output         *)
(* directories and a record of the last call.  One action per function,    *)
(* each the whole call: makedirs, the loops, every to_csv / savefig in the *)
(* order of the source, and the exception that ends the call early.        *)
(*                                                                         *)
(* Numbers.  A float is held as a decimal fixed-point number with 21       *)
(* fractional digits (a double has 15 to 17 significant ones, and the      *)
(* p-values go down to 1e-5), written as a sequence of base-1000 limbs,    *)
(* least significant first (the model checker's integers have 32 bits; a   *)
(* significance score of 100 / 1e-10 does not fit).  Sums, differences and *)
(* products are exact, a division truncates at the 21st digit; what the    *)
(* program holds is the double next to it.  numpy's round is computed on   *)
(* that double, as numpy does.  NaN is a value of its own.                 *)
(***************************************************************************)
EXTENDS Integers, Sequences, FiniteSets

(***************************************************************************)
(* The state                                                               *)
(***************************************************************************)
VARIABLES
    df,           \* the caller's DataFrame
    dirs,         \* the directories that exist
    files,        \* path |-> content of the files written so far
    last,         \* the last call: arguments, the frame it was given, outcome
    calls,        \* calls made
    argsortTies,  \* the platform's argsort on equal keys ("first", "last")
    mwuOnEmpty,   \* the installed scipy's mannwhitneyu on an empty sample
    pandas        \* the installed pandas: before 3.0 ("2.x") or 3.0 ("3.x")

vars == << df, dirs, files, last, calls, argsortTies, mwuOnEmpty, pandas >>

(***************************************************************************)
(* Fixed-point numbers                                                     *)
(***************************************************************************)
Base == 1000

\* Limbs of one unit: 1.0 = 10^21 = Base^FracLimbs.
FracLimbs == 7

NaN == << -1 >>

Limb(a, i) == IF i <= Len(a) THEN a[i] ELSE 0

Min2(a, b) == IF a < b THEN a ELSE b

RECURSIVE Norm(_)
Norm(a) ==
    IF a = << >> THEN a
    ELSE IF a[Len(a)] = 0 THEN Norm(SubSeq(a, 1, Len(a) - 1))
    ELSE a

RECURSIVE FromInt(_)
FromInt(n) == IF n = 0 THEN << >> ELSE << n % Base >> \o FromInt(n \div Base)

RECURSIVE AddFrom(_, _, _, _)
AddFrom(a, b, i, carry) ==
    IF i > Len(a) /\ i > Len(b)
    THEN (IF carry = 0 THEN << >> ELSE << carry >>)
    ELSE LET s == Limb(a, i) + Limb(b, i) + carry
         IN  << s % Base >> \o AddFrom(a, b, i + 1, s \div Base)

Add(a, b) == AddFrom(a, b, 1, 0)

RECURSIVE SubFrom(_, _, _, _)
SubFrom(a, b, i, borrow) ==
    IF i > Len(a) THEN << >>
    ELSE LET s == Limb(a, i) - Limb(b, i) - borrow
         IN  IF s < 0
             THEN << s + Base >> \o SubFrom(a, b, i + 1, 1)
             ELSE << s >> \o SubFrom(a, b, i + 1, 0)

\* a - b for a >= b.
Sub(a, b) == Norm(SubFrom(a, b, 1, 0))

RECURSIVE CmpFrom(_, _, _)
CmpFrom(a, b, i) ==
    IF i = 0 THEN 0
    ELSE IF a[i] < b[i] THEN -1
    ELSE IF a[i] > b[i] THEN 1
    ELSE CmpFrom(a, b, i - 1)

\* -1, 0, 1 as a < b, a = b, a > b.
Cmp(a, b) ==
    IF Len(a) < Len(b) THEN -1
    ELSE IF Len(a) > Len(b) THEN 1
    ELSE CmpFrom(a, b, Len(a))

Less(a, b) == Cmp(a, b) = -1

Leq(a, b) == Cmp(a, b) <= 0

RECURSIVE MulSmallFrom(_, _, _, _)
MulSmallFrom(a, k, i, carry) ==
    IF i > Len(a) THEN FromInt(carry)
    ELSE LET s == a[i] * k + carry
         IN  << s % Base >> \o MulSmallFrom(a, k, i + 1, s \div Base)

\* a * k for a limb-sized k.
MulSmall(a, k) == Norm(MulSmallFrom(a, k, 1, 0))

\* a * Base^n.
Shift(a, n) == IF a = << >> THEN a ELSE [i \in 1..n |-> 0] \o a

RECURSIVE QuotLimb(_, _, _, _)
\* The largest k in lo..hi with k * b <= r.
QuotLimb(r, b, lo, hi) ==
    IF lo = hi THEN lo
    ELSE LET mid == (lo + hi + 1) \div 2
         IN  IF Leq(MulSmall(b, mid), r)
             THEN QuotLimb(r, b, mid, hi)
             ELSE QuotLimb(r, b, lo, mid - 1)

\* The leading two limbs of the divisor b (its only limb when it has one) and
\* the limbs of r < b * Base above the same place.
LeadDivisor(b) == IF Len(b) = 1 THEN b[1] ELSE b[Len(b)] * Base + b[Len(b) - 1]

LeadRemainder(r, b) ==
    IF Len(b) = 1 THEN Limb(r, 2) * Base + Limb(r, 1)
    ELSE Limb(r, Len(b) + 1) * Base * Base + Limb(r, Len(b)) * Base + Limb(r, Len(b) - 1)

RECURSIVE DivFrom(_, _, _, _, _)
\* The step of the long division at limb i: the quotient's limb is searched
\* between the bounds its leading limbs give.
DivLimb(a, b, i, r, quot) ==
    LET k == QuotLimb(r, b,
                      LeadRemainder(r, b)
                          \div (LeadDivisor(b) + (IF Len(b) = 1 THEN 0 ELSE 1)),
                      Min2(Base - 1, LeadRemainder(r, b) \div LeadDivisor(b)))
    IN  DivFrom(a, b, i - 1, Sub(r, MulSmall(b, k)), << k >> \o quot)

\* Long division, from the most significant limb of a down: rem is what is
\* left of the limbs above the i-th, quot their quotient.  (The test on the
\* lengths has rem and quot evaluated limb by limb.)
DivFrom(a, b, i, rem, quot) ==
    IF i = 0 \/ Len(rem) + Len(quot) < 0 THEN quot
    ELSE DivLimb(a, b, i, Norm(<< a[i] >> \o rem), quot)

\* floor(a / b) of the integers a, b the limbs spell, b > 0.
IntDiv(a, b) == Norm(DivFrom(a, b, Len(a), << >>, << >>))

One == Shift(<< 1 >>, FracLimbs)

\* The integer n >= 0 as a fixed-point number.
Float(n) == Shift(FromInt(n), FracLimbs)

\* n / d as a fixed-point number, for integers n >= 0, d > 0.
FromRat(n, d) == IntDiv(Shift(FromInt(n), FracLimbs), FromInt(d))

RECURSIVE Newton(_, _)
\* One step of Newton's iteration for the integer square root of x, from an
\* estimate est above it to the next one.
NewtonStep(x, est, next) == IF Less(next, est) THEN Newton(x, next) ELSE est

\* (est + x / est) / 2, the half taken as 500 / Base.
Newton(x, est) ==
    NewtonStep(x, est, Norm(Tail(MulSmall(Add(est, IntDiv(x, est)), Base \div 2))))

\* The least r with r * r > n, for an integer n below Base^2.
RootAbove(n) == CHOOSE r \in 1..Base : r * r > n /\ (r - 1) * (r - 1) <= n

\* floor(sqrt(x)) of the integer x: Newton's iteration from an estimate above
\* it, taken from the leading limb or two of x.
IntSqrt(x) ==
    IF x = << >> THEN x
    ELSE IF Len(x) % 2 = 1
    THEN Newton(x, Shift(FromInt(RootAbove(x[Len(x)])), (Len(x) - 1) \div 2))
    ELSE Newton(x, Shift(FromInt(RootAbove(x[Len(x)] * Base + x[Len(x) - 1])),
                         (Len(x) - 2) \div 2))

\* sqrt(n / d) as a fixed-point number, for integers n >= 0, d > 0.
SqrtRat(n, d) == IntSqrt(IntDiv(Shift(FromInt(n), 2 * FracLimbs), FromInt(d)))

\* a / Base^n rounded to the nearest integer, a tie to the even one (n >= 1).
RoundHalfEven(a, n) ==
    LET q == IF Len(a) > n THEN SubSeq(a, n + 1, Len(a)) ELSE << >>
        c == Cmp(Norm(SubSeq(a, 1, Min2(n, Len(a)))), Shift(<< Base \div 2 >>, n - 1))
    IN  IF c = 1 \/ (c = 0 /\ Limb(q, 1) % 2 = 1) THEN Add(q, << 1 >>) ELSE q

\* 2^k as an integer.
RECURSIVE Pow2(_)
Pow2(k) == IF k < 9 THEN FromInt(2 ^ k) ELSE MulSmall(Pow2(k - 9), 512)

\* a * 125^n.
RECURSIVE Times125(_, _)
Times125(a, n) ==
    IF n = 0 THEN a
    ELSE IF n >= 3 THEN Times125(MulSmall(a, 125 * 125 * 125), n - 3)
    ELSE Times125(MulSmall(a, 125), n - 1)

\* a / 2^k rounded to the nearest integer, a tie to the even one:
\* a / 2^k = a * 2^j * 125^n / Base^n with 3 * n = k + j.
RoundHalfEvenBits(a, k) ==
    IF k = 0 THEN a
    ELSE RoundHalfEven(MulSmall(Times125(a, (k + 2) \div 3), 2 ^ (3 * ((k + 2) \div 3) - k)),
                       (k + 2) \div 3)

\* The integer part of a fixed-point number.
IntPart(a) == IF Len(a) > FracLimbs THEN SubSeq(a, FracLimbs + 1, Len(a)) ELSE << >>

\* For 0 < a < 2^53: the s with 2^52 <= a * 2^s < 2^53 and a * 2^s, found
\* from a * 2^s for a smaller s.
RECURSIVE Scaled(_, _)
Scaled(a, s) ==
    IF Less(IntPart(a), Pow2(44)) THEN Scaled(MulSmall(a, 512), s + 9)
    ELSE IF Less(IntPart(a), Pow2(52)) THEN Scaled(MulSmall(a, 2), s + 1)
    ELSE [exp |-> s, value |-> a]

\* The double next to a, 0 < a < 2^53: mant * 2^-exp with a significand of 53
\* bits, a tie to the even one.
DoubleOf(scaled) == [mant |-> RoundHalfEven(scaled.value, FracLimbs), exp |-> scaled.exp]

Double(a) == DoubleOf(Scaled(a, 0))

\* The bits an integer p >= 2^52 has beyond 53.
RECURSIVE ExtraBits(_, _)
ExtraBits(p, t) == IF Less(p, Pow2(53 + t)) THEN t ELSE ExtraBits(p, t + 1)

\* rint(m2 * 2^(t - s)): the nearest integer, a tie to the even one.
Rint(m2, t, s) ==
    IF t >= s THEN MulSmall(m2, 2 ^ (t - s)) ELSE RoundHalfEvenBits(m2, s - t)

\* rint(x * 10^decimals) for the double x = mant * 2^-exp: the product is
\* rounded to a double (p is the exact product, t its bits beyond 53) before
\* rint rounds it to an integer.
RintScaled(p, t, exp) == Rint(RoundHalfEvenBits(p, t), t, exp)

RintTimes(x, scale) ==
    RintScaled(MulSmall(x.mant, scale), ExtraBits(MulSmall(x.mant, scale), 0), x.exp)

\* numpy's round(a, decimals), decimals in 1..3: rint(a * 10^decimals) /
\* 10^decimals in doubles.  The quotient is the double next to the decimal
\* number the model holds.
NumpyRound(a, decimals) ==
    IF a = NaN \/ a = << >> THEN a
    ELSE MulSmall(Shift(RintTimes(Double(a), 10 ^ decimals), FracLimbs - 1),
                  10 ^ (3 - decimals))

\* DataFrame.round(3) of one value.
Round3(a) == NumpyRound(a, 3)


(***************************************************************************)
(* Rationals with small terms, for the chi-square statistic of a table of  *)
(* counts: << numerator, denominator >> in lowest terms.                   *)
(***************************************************************************)
RECURSIVE Gcd(_, _)
Gcd(a, b) == IF b = 0 THEN a ELSE Gcd(b, a % b)

Reduce(n, d) == LET g == Gcd(n, d) IN << n \div g, d \div g >>

RatAdd(x, y) == Reduce(x[1] * y[2] + y[1] * x[2], x[2] * y[2])

(***************************************************************************)
(* Column labels and group labels are Python strings; str.__lt__ compares  *)
(* code points, left to right, a proper prefix being the smaller.          *)
(***************************************************************************)
Codepoints ==
    [ g |-> << 103 >>, h |-> << 104 >>,
      a |-> << 97 >>, b |-> << 98 >>, c |-> << 99 >>, d |-> << 100 >>,
      e |-> << 101 >>, f |-> << 102 >>, v |-> << 118 >>,
      efs |-> << 101, 102, 115 >>,
      efs_time |-> << 101, 102, 115, 95, 116, 105, 109, 101 >>,
      A |-> << 65 >>, B |-> << 66 >> ]

RECURSIVE SeqLess(_, _)
SeqLess(s, t) ==
    IF t = << >> THEN FALSE
    ELSE IF s = << >> THEN TRUE
    ELSE IF s[1] # t[1] THEN s[1] < t[1]
    ELSE SeqLess(Tail(s), Tail(t))

StrLess(s, t) == SeqLess(Codepoints[s], Codepoints[t])

\* x < y for two values of one Python type (False < True).
LessOf(type, x, y) ==
    IF type = "str" THEN StrLess(x, y)
    ELSE IF type = "bool" THEN ~x /\ y
    ELSE x < y

(***************************************************************************)
(* The DataFrame: ordered column labels, and per label the cells of the    *)
(* rows.  A cell is << >> (NaN) or << value >>; the values of column g are *)
(* strings, those of the other columns integers.  A frame without rows is  *)
(* pd.DataFrame({label: [], ...}).                                         *)
(***************************************************************************)
\* The rows of the frames that have rows: ten of group A, then ten of group B.
Rows == 1..20

IsNull(cell) == cell = << >>

\* The value of row i in a column: the group, the event indicator, the time,
\* and 1 in every other column.
ValueOf(col, i) ==
    IF col = "g" THEN (IF i <= 10 THEN "A" ELSE "B")
    ELSE IF col = "efs" THEN (IF i \in {1, 2, 3, 5, 8, 11, 13, 14, 17, 19} THEN 1 ELSE 0)
    ELSE IF col = "efs_time" THEN (7 * i) % 23
    ELSE 1

\* A frame with the given column order and rows; missing[col] are the rows
\* where col is NaN.
Frame(order, rows, missing) ==
    [ columns |-> order,
      data    |-> [col \in {order[k] : k \in DOMAIN order} |->
                     [i \in rows |-> IF i \in missing[col] THEN << >>
                                     ELSE << ValueOf(col, i) >>]] ]

NoMissing == [col \in DOMAIN Codepoints |-> {}]

WideOrder == << "g", "b", "a", "f", "c", "e", "d", "efs_time", "efs" >>

Datasets ==
    [ train     |-> Frame(WideOrder, Rows,
                      [NoMissing EXCEPT !.a = 1..10, !.b = 1..9, !.d = {1, 2, 11, 12},
                                        !.e = {1, 2, 3, 11}, !.f = 11..15]),
      other     |-> Frame(WideOrder, Rows,
                      [NoMissing EXCEPT !.c = 1..10, !.e = 1..9, !.b = {1, 2, 11, 12},
                                        !.f = {1, 2, 3, 11}, !.d = 11..15]),
      allnull   |-> Frame(<< "g", "a", "v", "efs", "efs_time" >>, Rows,
                      [NoMissing EXCEPT !.a = 1..9, !.v = Rows]),
      nooutcome |-> Frame(<< "g", "a", "b" >>, Rows,
                      [NoMissing EXCEPT !.a = 1..10, !.b = 1..9]),
      complete  |-> Frame(<< "g", "c" >>, Rows, NoMissing),
      timegap   |-> Frame(<< "g", "a", "efs_time", "efs" >>, Rows,
                      [NoMissing EXCEPT !.a = 1..10, !.efs_time = {4}]),
      noevent   |-> Frame(<< "g", "a", "efs", "efs_time" >>, Rows,
                      [NoMissing EXCEPT !.a = 1..10, !.efs = Rows]),
      empty     |-> Frame(<< "g", "d", "c" >>, {}, NoMissing) ]

DatasetNames == DOMAIN Datasets

Range(s) == {s[k] : k \in DOMAIN s}

HasColumn(frame, col) == col \in Range(frame.columns)

(***************************************************************************)
(* pandas                                                                  *)
(***************************************************************************)
\* Series.isnull()
IsNullSeries(cells) == [i \in DOMAIN cells |-> IsNull(cells[i])]

\* cells wrapped as never-null values, for a derived boolean / integer Series.
AsCells(values) == [i \in DOMAIN values |-> << values[i] >>]

\* The elements of S in increasing order; before holds the << x, y >> with
\* x before y.
RECURSIVE SortSet(_, _)
SortSet(S, before) ==
    IF S = {} THEN << >>
    ELSE << CHOOSE x \in S : \A y \in S \ {x} : << x, y >> \in before >>
         \o SortSet(S \ {CHOOSE x \in S : \A y \in S \ {x} : << x, y >> \in before},
                    before)

\* The categories of S in the order of their type.
SortedCategories(S, type) ==
    SortSet(S, {xy \in S \X S : LessOf(type, xy[1], xy[2])})

\* pd.crosstab(xs, ys): rows where either is null are dropped; the observed
\* categories, sorted, label the rows and the columns.
Crosstab(xs, ys, xtype, ytype) ==
    LET kept == {i \in DOMAIN xs : ~IsNull(xs[i]) /\ ~IsNull(ys[i])}
        rk   == SortedCategories({xs[i][1] : i \in kept}, xtype)
        ck   == SortedCategories({ys[i][1] : i \in kept}, ytype)
    IN  [ index   |-> rk,
          columns |-> ck,
          counts  |-> [r \in DOMAIN rk |-> [k \in DOMAIN ck |->
                        Cardinality({i \in kept : xs[i][1] = rk[r] /\ ys[i][1] = ck[k]})]] ]

(***************************************************************************)
(* scipy.stats                                                             *)
(***************************************************************************)
\* chi2.sf(x, 1) at the statistics the datasets of the model give:
\* << numerator, denominator, survival probability >>.
Chi2SfTable ==
    { << 5, 16, << 169, 944, 578, 30, 122, 150, 576 >> >>,
      << 5, 12, << 761, 624, 725, 428, 16, 605, 518 >> >>,
      << 245, 396, << 532, 480, 924, 662, 672, 535, 431 >> >>,
      << 45, 16, << 944, 113, 93, 689, 512, 532, 93 >> >>,
      << 980, 297, << 490, 95, 558, 511, 85, 294, 69 >> >>,
      << 64, 15, << 110, 228, 417, 812, 103, 867, 38 >> >>,
      << 1445, 256, << 472, 942, 665, 585, 896, 509, 17 >> >>,
      << 1280, 99, << 719, 845, 725, 946, 479, 323 >> >>,
      << 81, 5, << 440, 318, 233, 116, 994, 56 >> >> }

Chi2Sf(x) ==
    IF x[1] = 0 THEN One
    ELSE (CHOOSE t \in Chi2SfTable : t[1] = x[1] /\ t[2] = x[2])[3]

RowSum(ct, r) == LET RECURSIVE S(_)
                     S(k) == IF k = 0 THEN 0 ELSE ct.counts[r][k] + S(k - 1)
                 IN  S(Len(ct.columns))

ColSum(ct, k) == LET RECURSIVE S(_)
                     S(r) == IF r = 0 THEN 0 ELSE ct.counts[r][k] + S(r - 1)
                 IN  S(Len(ct.index))

Total(ct) == LET RECURSIVE S(_)
                 S(r) == IF r = 0 THEN 0 ELSE RowSum(ct, r) + S(r - 1)
             IN  S(Len(ct.index))

\* A table with a single row or a single column of categories.
Degenerate(ct) == Len(ct.index) < 2 \/ Len(ct.columns) < 2

\* One cell's share of the statistic of a 2 x 2 table, after Yates' correction
\* (correction=True is the default): the observed count is moved towards the
\* expected one by min(0.5, |expected - observed|).  Counts in units of 1/(2n).
YatesShare(n, row, col, count) ==
    LET expected == 2 * row * col
        observed == 2 * n * count
        diff     == expected - observed
        moved    == IF diff < 0 THEN observed - Min2(n, -diff)
                    ELSE observed + Min2(n, diff)
    IN  Reduce((moved - expected) * (moved - expected), 4 * n * row * col)

YatesTerm(ct, r, k) ==
    YatesShare(Total(ct), RowSum(ct, r), ColSum(ct, k), ct.counts[r][k])

\* The statistic x (a reduced fraction) as a float, and its p-value.
Chi2Result(x) == [raised |-> FALSE, chi2 |-> FromRat(x[1], x[2]), p |-> Chi2Sf(x)]

\* chi2_contingency(observed): ValueError on a table of size 0; chi2 = 0.0 and
\* p = 1.0 when there are no degrees of freedom; Pearson's statistic with
\* Yates' correction at one degree of freedom (no frame of the model has a
\* column of more than two categories).
Chi2Contingency(ct) ==
    IF Len(ct.index) = 0 \/ Len(ct.columns) = 0
    THEN [raised |-> TRUE, chi2 |-> NaN, p |-> NaN]
    ELSE IF (Len(ct.index) - 1) * (Len(ct.columns) - 1) = 0
    THEN [raised |-> FALSE, chi2 |-> << >>, p |-> One]
    ELSE Chi2Result(RatAdd(RatAdd(YatesTerm(ct, 1, 1), YatesTerm(ct, 1, 2)),
                           RatAdd(YatesTerm(ct, 2, 1), YatesTerm(ct, 2, 2))))

\* The two-sided p-value of mannwhitneyu at the sample sizes and statistics U1
\* the datasets of the model give (no ties among the times):
\* << n1, n2, U1, p >>.
MannWhitneyTable ==
    { << 4, 16, 32, << 0, 0, 0, 0, 0, 0, 0, 1 >> >>,
      << 4, 16, 37, << 247, 169, 844, 478, 144, 940, 681 >> >>,
      << 5, 15, 45, << 788, 444, 401, 819, 574, 147, 553 >> >>,
      << 9, 10, 43, << 347, 433, 679, 177, 250, 523, 902 >> >>,
      << 9, 11, 54, << 108, 933, 960, 800, 985, 207, 761 >> >>,
      << 10, 10, 45, << 11, 236, 247, 696, 995, 729, 733 >> >> }

\* mannwhitneyu(x, y) of two samples given as sequences.  On an empty sample
\* scipy raises ValueError (`x` and `y` must be of nonzero size) up to 1.13 and
\* returns NaN from 1.14 on: onEmpty says which.
MannWhitneyU(x, y, onEmpty) ==
    IF Len(x) = 0 \/ Len(y) = 0
    THEN [raised |-> onEmpty = "raise", pvalue |-> NaN]
    ELSE LET U1 == Cardinality({ij \in (DOMAIN x) \X (DOMAIN y) : x[ij[1]] > y[ij[2]]})
         IN  [raised |-> FALSE,
              pvalue |-> (CHOOSE t \in MannWhitneyTable :
                             t[1] = Len(x) /\ t[2] = Len(y) /\ t[3] = U1)[4]]

(***************************************************************************)
(* analyze_group_differences: the loop over features_list                  *)
(***************************************************************************)
\* 1e-10, in units of 10^-21.
EPS == << 0, 0, 0, 100 >>

\* df[feature].isnull().groupby(df[group_variable]).mean() * 100: the group
\* keys, sorted (rows with a null key are dropped), and per key the mean of the
\* boolean, times 100.
PercentagesByGroup(nulls, groups) ==
    LET keyset == {groups[i][1] : i \in {j \in DOMAIN groups : ~IsNull(groups[j])}}
        In(k)  == {i \in DOMAIN groups : groups[i] = << k >>}
    IN  [ keys |-> SortedCategories(keyset, "str"),
          pct  |-> [k \in keyset |->
                      MulSmall(FromRat(Cardinality({i \in In(k) : nulls[i]}), Cardinality(In(k))), 100)] ]

\* Series.max() of the percentages (NaN on an empty Series).
MaxPct(p) ==
    IF p.keys = << >> THEN NaN
    ELSE p.pct[CHOOSE k \in DOMAIN p.pct : \A o \in DOMAIN p.pct : Leq(p.pct[o], p.pct[k])]

GroupContingency(frame, group_variable, feature) ==
    Crosstab(frame.data[group_variable],
             AsCells(IsNullSeries(frame.data[feature])), "str", "bool")

\* The largest percentage alone, the smallest one not subtracted.
MaxPercentage(percentages_by_group) == MaxPct(percentages_by_group)

\* max_diff = percentages_by_group.max() - percentages_by_group.min():
\* NaN - NaN = NaN on an empty Series.
MaxGroupDifference(percentages_by_group) ==
    IF percentages_by_group.keys = << >> THEN NaN
    ELSE Sub(MaxPct(percentages_by_group),
             percentages_by_group.pct[
                 CHOOSE k \in DOMAIN percentages_by_group.pct :
                     \A o \in DOMAIN percentages_by_group.pct :
                         Leq(percentages_by_group.pct[k], percentages_by_group.pct[o])])

\* max_diff / (p_value + 1e-10); NaN when either is NaN.
SignificanceScore(max_diff, p_value) ==
    IF max_diff = NaN \/ p_value = NaN THEN NaN
    ELSE IntDiv(Shift(max_diff, FracLimbs), Add(p_value, EPS))

\* One pass of the loop, from the percentages and the test's outcome: the dict
\* stored under results[feature], at full precision.
FeaturePass(feature, percentages_by_group, test) ==
    [ feature              |-> feature,
      groups               |-> percentages_by_group.keys,
      pct                  |-> percentages_by_group.pct,
      p_value              |-> test.p,
      chi2_statistic       |-> test.chi2,
      max_group_difference |-> MaxGroupDifference(percentages_by_group),
      significance_score   |-> SignificanceScore(MaxGroupDifference(percentages_by_group),
                                                 test.p) ]

FeatureResult(frame, group_variable, feature) ==
    FeaturePass(feature,
                PercentagesByGroup(IsNullSeries(frame.data[feature]),
                                   frame.data[group_variable]),
                Chi2Contingency(GroupContingency(frame, group_variable, feature)))

\* results[key] = value of a dict: a key already there keeps its place.
DictSet(rows, row) ==
    IF \E k \in DOMAIN rows : rows[k].feature = row.feature
    THEN [k \in DOMAIN rows |-> IF rows[k].feature = row.feature THEN row ELSE rows[k]]
    ELSE Append(rows, row)

RECURSIVE ResultsFrom(_, _, _, _, _)
\* The loop from features_list[i] on: the dict when it ends, or the exception
\* that ends the call (KeyError: a label that is no column; ValueError: the
\* chi-square test refuses an empty table).
ResultsFrom(frame, group_variable, features_list, i, results) ==
    IF i > Len(features_list) THEN [error |-> "", rows |-> results]
    ELSE IF ~HasColumn(frame, features_list[i]) \/ ~HasColumn(frame, group_variable)
    THEN [error |-> "KeyError", rows |-> << >>]
    ELSE IF Chi2Contingency(GroupContingency(frame, group_variable, features_list[i])).raised
    THEN [error |-> "ValueError", rows |-> << >>]
    ELSE ResultsFrom(frame, group_variable, features_list, i + 1,
                     DictSet(results, FeatureResult(frame, group_variable, features_list[i])))

Results(frame, group_variable, features_list) ==
    ResultsFrom(frame, group_variable, features_list, 1, << >>)

\* results_df = pd.DataFrame.from_dict(results, orient='index').round(3):
\* every float column of every row is rounded.
ResultsDf(rows) ==
    [ r \in DOMAIN rows |->
        [ feature              |-> rows[r].feature,
          groups               |-> rows[r].groups,
          pct                  |-> [k \in DOMAIN rows[r].pct |-> Round3(rows[r].pct[k])],
          p_value              |-> Round3(rows[r].p_value),
          chi2_statistic       |-> Round3(rows[r].chi2_statistic),
          max_group_difference |-> Round3(rows[r].max_group_difference),
          significance_score   |-> Round3(rows[r].significance_score) ] ]

(***************************************************************************)
(* DataFrame.sort_values(by), kind='quicksort' (the default)               *)
(***************************************************************************)
\* Where an argsort that is not stable leaves equal keys: in the order of the
\* input ("first": numpy's insertion sort on short arrays) or not ("last").
\* numpy.argsort(keys, kind='quicksort'): the positions in increasing key
\* order; among equal keys the platform's rule decides.
Argsort(keys, ties) ==
    SortSet(DOMAIN keys,
            {ij \in (DOMAIN keys) \X (DOMAIN keys) :
                \/ Less(keys[ij[1]], keys[ij[2]])
                \/ /\ keys[ij[1]] = keys[ij[2]]
                   /\ (IF ties = "first" THEN ij[1] < ij[2] ELSE ij[1] > ij[2])})

Reverse(s) == [k \in DOMAIN s |-> s[Len(s) + 1 - k]]

\* sort_values(by, ascending): pandas nargsort sorts the keys; a descending
\* sort reverses the keys, sorts them increasingly and reverses the outcome.
SortValues(rows, by, ascending, ties) ==
    LET keys     == [k \in DOMAIN rows |-> rows[k][by]]
        reversed == Argsort(Reverse(keys), ties)
        order    == IF ascending THEN Argsort(keys, ties)
                    ELSE Reverse([k \in DOMAIN rows |-> Len(rows) + 1 - reversed[k]])
    IN  [k \in DOMAIN rows |-> rows[order[k]]]

(***************************************************************************)
(* analyze_missing_patterns: the three tables                              *)
(***************************************************************************)
\* missing_indicators = df.isnull().astype(int), one column.
MissingIndicator(frame, col) ==
    [i \in DOMAIN frame.data[col] |-> IF IsNull(frame.data[col][i]) THEN 1 ELSE 0]

\* Pearson's r of two 0/1 columns, kept exact as numerator / sqrt(den2);
\* NaN when either column is constant.
Pearson(x, y) ==
    LET n   == Len(x)
        n1  == Cardinality({i \in DOMAIN x : x[i] = 1})
        n2  == Cardinality({i \in DOMAIN y : y[i] = 1})
        n11 == Cardinality({i \in DOMAIN x : x[i] = 1 /\ y[i] = 1})
        den2 == n1 * (n - n1) * n2 * (n - n2)
    IN  IF den2 = 0 THEN [nan |-> TRUE, num |-> 0, den2 |-> 0]
        ELSE [nan |-> FALSE, num |-> n * n11 - n1 * n2, den2 |-> den2]

\* missing_indicators.corr(): a row per column, in column order.
MissingCorr(frame) ==
    [r \in DOMAIN frame.columns |->
        [ variable |-> frame.columns[r],
          r        |-> [k \in DOMAIN frame.columns |->
                          Pearson(MissingIndicator(frame, frame.columns[r]),
                                  MissingIndicator(frame, frame.columns[k]))] ]]

\* The pairs (col1, col2) of the two nested loops over the columns with
\* col1 < col2, in the order the loops visit them.
ComparedPairs(columns) ==
    LET Later(r) == SelectSeq(columns, LAMBDA col2 : StrLess(columns[r], col2))
        RECURSIVE From(_)
        From(r) == IF r > Len(columns) THEN << >>
                   ELSE [k \in DOMAIN Later(r) |-> << columns[r], Later(r)[k] >>]
                        \o From(r + 1)
    IN  From(1)

PairContingency(frame, col1, col2) ==
    Crosstab(AsCells(MissingIndicator(frame, col1)),
             AsCells(MissingIndicator(frame, col2)), "int", "int")

\* chi2, p_value, _, _ = stats.chi2_contingency(contingency) of one pair.
PairTest(frame, pair) == Chi2Contingency(PairContingency(frame, pair[1], pair[2]))

\* The first pair whose test raises (one past the last pair when none does).
FirstRaise(frame, pairs) ==
    IF \E k \in DOMAIN pairs : PairTest(frame, pairs[k]).raised
    THEN CHOOSE k \in DOMAIN pairs :
             /\ PairTest(frame, pairs[k]).raised
             /\ \A j \in 1..(k - 1) : ~PairTest(frame, pairs[j]).raised
    ELSE Len(pairs) + 1

\* chi_square_results when the loop stops at pair `stop`, and the ValueError
\* of the chi-square test if that is what stops it.
ChiSquareUpTo(frame, pairs, stop) ==
    [ error |-> IF stop <= Len(pairs) THEN "ValueError" ELSE "",
      rows  |-> [k \in 1..(stop - 1) |->
                   [ variable1      |-> pairs[k][1],
                     variable2      |-> pairs[k][2],
                     chi2_statistic |-> PairTest(frame, pairs[k]).chi2,
                     p_value        |-> PairTest(frame, pairs[k]).p ]] ]

ChiSquareResults(frame) ==
    ChiSquareUpTo(frame, ComparedPairs(frame.columns),
                  FirstRaise(frame, ComparedPairs(frame.columns)))

\* The non-null values of cells at the rows of picked, in row order:
\* df[mask][col].dropna().
RECURSIVE DropnaFrom(_, _, _)
DropnaFrom(cells, picked, i) ==
    IF i > Len(cells) THEN << >>
    ELSE (IF i \in picked /\ ~IsNull(cells[i]) THEN cells[i] ELSE << >>)
         \o DropnaFrom(cells, picked, i + 1)

Dropna(cells, picked) == DropnaFrom(cells, picked, 1)

RECURSIVE SumSeq(_)
SumSeq(s) == IF s = << >> THEN 0 ELSE s[1] + SumSeq(Tail(s))

\* Series.mean(): nulls skipped, NaN when nothing is left.
Mean(cells, picked) ==
    LET values == Dropna(cells, picked)
    IN  IF values = << >> THEN NaN ELSE FromRat(SumSeq(values), Len(values))

MissingRows(frame, col) == {i \in DOMAIN frame.data[col] : IsNull(frame.data[col][i])}

PresentRows(frame, col) == {i \in DOMAIN frame.data[col] : ~IsNull(frame.data[col][i])}

\* The columns of a frame with a missing value, in column order.
ColumnsWithMissing(frame) ==
    SelectSeq(frame.columns, LAMBDA col : MissingRows(frame, col) # {})

\* stats.mannwhitneyu(df[mask]['efs_time'].dropna(), df[~mask]['efs_time'].dropna())
TimeStats(frame, col, onEmpty) ==
    MannWhitneyU(Dropna(frame.data["efs_time"], MissingRows(frame, col)),
                 Dropna(frame.data["efs_time"], PresentRows(frame, col)), onEmpty)

\* stats.chi2_contingency(pd.crosstab(mask, df['efs']))
EventStats(frame, col) ==
    Chi2Contingency(Crosstab(AsCells(IsNullSeries(frame.data[col])),
                             frame.data["efs"], "bool", "int"))

\* The dict appended to survival_analysis for one column.
SurvivalRow(frame, col, onEmpty) ==
    [ variable           |-> col,
      time_diff_pvalue   |-> TimeStats(frame, col, onEmpty).pvalue,
      event_diff_pvalue  |-> EventStats(frame, col).p,
      missing_event_rate |-> Mean(frame.data["efs"], MissingRows(frame, col)),
      present_event_rate |-> Mean(frame.data["efs"], PresentRows(frame, col)) ]

\* The exception that ends one pass of the loop of step 4 for a column with a
\* missing value ("" when it completes).  The rank test is evaluated first,
\* then the chi-square test.
SurvivalError(frame, col, onEmpty) ==
    IF ~HasColumn(frame, "efs_time") THEN "KeyError"
    ELSE IF TimeStats(frame, col, onEmpty).raised THEN "ValueError"
    ELSE IF ~HasColumn(frame, "efs") THEN "KeyError"
    ELSE IF EventStats(frame, col).raised THEN "ValueError"
    ELSE ""

\* The loop over the columns continued with the outcome of column i.
RECURSIVE SurvivalFrom(_, _, _, _)
SurvivalStep(frame, i, rows, onEmpty, error) ==
    IF error # "" THEN [error |-> error, rows |-> rows]
    ELSE SurvivalFrom(frame, i + 1,
                      Append(rows, SurvivalRow(frame, frame.columns[i], onEmpty)), onEmpty)

\* survival_analysis from the i-th column on: a column without a missing value
\* is passed over.
SurvivalFrom(frame, i, rows, onEmpty) ==
    IF i > Len(frame.columns) THEN [error |-> "", rows |-> rows]
    ELSE IF MissingRows(frame, frame.columns[i]) = {}
    THEN SurvivalFrom(frame, i + 1, rows, onEmpty)
    ELSE SurvivalStep(frame, i, rows, onEmpty,
                      SurvivalError(frame, frame.columns[i], onEmpty))

SurvivalAnalysis(frame, onEmpty) == SurvivalFrom(frame, 1, << >>, onEmpty)

MaxCalls == 2

\* significance_scores.index[:5]
TopN == 5

OutputDirs == { << "results", "EDA", "plots" >> }

GroupArgs == {"g", "h"}

FeatureArgs == { << "b", "a", "c", "d", "e", "f" >>, << "d", "c" >>, << "a", "v" >> }

\* os.makedirs(output_dir, exist_ok=True): the directory and its parents.
Makedirs(existing, output_dir) ==
    existing \cup {SubSeq(output_dir, 1, k) : k \in 1..Len(output_dir)}

PvalueSortedCsv(output_dir, group_variable) ==
    << output_dir, << "differences_by", group_variable, "pvalue_sorted.csv" >> >>

SignificanceSortedCsv(output_dir, group_variable) ==
    << output_dir, << "differences_by", group_variable, "significance_sorted.csv" >> >>

HeatmapPng(output_dir, group_variable) ==
    << output_dir, << "heatmap", group_variable, "png" >> >>

TopFeaturesBarsPng(output_dir, group_variable) ==
    << output_dir, << "top_features_bars", group_variable, "png" >> >>

SignificanceScatterPng(output_dir, group_variable) ==
    << output_dir, << "significance_scatter", group_variable, "png" >> >>

LinearCorrelationsCsv(output_dir) == << output_dir, << "missing_linear_correlations.csv" >> >>

NonlinearRelationshipsCsv(output_dir) ==
    << output_dir, << "missing_nonlinear_relationships.csv" >> >>

SurvivalRelationshipCsv(output_dir) ==
    << output_dir, << "missing_survival_relationship.csv" >> >>

\* to_csv(path, mode='a') in place of to_csv(path): the rows are added to
\* those the file holds.
RECURSIVE WriteAppending(_, _)
WriteAppending(fs, written) ==
    IF written = << >> THEN fs
    ELSE LET path == written[1][1]
         IN  WriteAppending([q \in DOMAIN fs \cup {path} |->
                                IF q # path THEN fs[q]
                                ELSE IF path \in DOMAIN fs THEN fs[path] \o written[1][2]
                                ELSE written[1][2]],
                            Tail(written))

\* The files after the writes of one call, in order: each << path, content >>
\* replaces what the path held (to_csv and savefig open the path for writing).
RECURSIVE WriteAll(_, _)
WriteAll(fs, written) ==
    IF written = << >> THEN fs
    ELSE LET path == written[1][1]
         IN  WriteAll([q \in DOMAIN fs \cup {path} |->
                          IF q = path THEN written[1][2] ELSE fs[q]],
                      Tail(written))

\* The call about to be made repeats the last one: the same function, the
\* same arguments, the same frame.
Again(op, group_variable, features_list, output_dir) ==
    /\ last.op = op
    /\ last.group_variable = group_variable
    /\ last.features_list = features_list
    /\ last.output_dir = output_dir
    /\ last.data = df

Init ==
    /\ df \in {Datasets[n] : n \in DatasetNames}
    /\ dirs = {}
    /\ files = << >>
    /\ last = [ op |-> "none", group_variable |-> "", features_list |-> << >>,
                output_dir |-> << >>, data |-> << >>, again |-> FALSE, error |-> "",
                written |-> << >>, top_features |-> << >> ]
    /\ calls = 0
    /\ argsortTies \in {"first", "last"}
    /\ mwuOnEmpty \in {"raise", "nan"}
    /\ pandas \in {"2.x", "3.x"}

(***************************************************************************)
(* analyze_group_differences(df, group_variable, features_list, output_dir)*)
(***************************************************************************)
\* What the call writes, in order, and the exception that ends it (if any).
\* sort_values on a frame without columns (an empty features_list) raises
\* KeyError: 'p_value'.
GroupDifferenceFiles(frame, group_variable, features_list, output_dir, ties) ==
    LET results == Results(frame, group_variable, features_list)
        results_df == ResultsDf(results.rows)
    IN  IF results.error # "" THEN [error |-> results.error, written |-> << >>]
        ELSE IF results.rows = << >> THEN [error |-> "KeyError", written |-> << >>]
        ELSE [ error   |-> "",
               written |-> << << PvalueSortedCsv(output_dir, group_variable),
                                 SortValues(results_df, "p_value", TRUE, ties) >>,
                              << SignificanceSortedCsv(output_dir, group_variable),
                                 SortValues(results_df, "significance_score", FALSE, ties) >> >> ]

AnalyzeGroupDifferences(group_variable, features_list, output_dir) ==
    /\ calls < MaxCalls
    /\ \E out \in {GroupDifferenceFiles(df, group_variable, features_list,
                                       output_dir, argsortTies)} :
           /\ dirs' = Makedirs(dirs, output_dir)
           /\ files' = WriteAll(files, out.written)
           /\ last' = [ op |-> "analyze_group_differences",
                        group_variable |-> group_variable,
                        features_list |-> features_list,
                        output_dir |-> output_dir, data |-> df,
                        again |-> Again("analyze_group_differences", group_variable,
                                        features_list, output_dir),
                        error |-> out.error, written |-> out.written,
                        top_features |-> << >> ]
    /\ calls' = calls + 1
    /\ UNCHANGED << df, argsortTies, mwuOnEmpty, pandas >>

(***************************************************************************)
(* visualize_group_differences(df, group_variable, features_list,          *)
(*                             output_dir)                                 *)
(***************************************************************************)
\* One entry of a plot: a feature's missing percentage per group.
MissingRates(frame, group_variable, feature) ==
    LET percentages == PercentagesByGroup(IsNullSeries(frame.data[feature]),
                                          frame.data[group_variable])
    IN  [feature |-> feature, groups |-> percentages.keys, pct |-> percentages.pct]

RECURSIVE RatesFrom(_, _, _, _, _)
\* The loop over a list of features that computes the rates of each: the
\* entries (a dict when keyed, a list otherwise), or the KeyError of a label
\* that is no column.
RatesFrom(frame, group_variable, features, i, rates) ==
    IF i > Len(features) THEN [error |-> "", rows |-> rates]
    ELSE IF ~HasColumn(frame, features[i]) \/ ~HasColumn(frame, group_variable)
    THEN [error |-> "KeyError", rows |-> rates]
    ELSE RatesFrom(frame, group_variable, features, i + 1,
                   DictSet(rates, MissingRates(frame, group_variable, features[i])))

\* pd.read_csv(path, index_col=0).index: the first field of each record.
CsvIndex(content) == [k \in DOMAIN content |-> content[k].feature]

FirstRows(s, n) == SubSeq(s, 1, Min2(n, Len(s)))

\* The points of the scatter plot, one per record of the file read.
ScatterPoints(content) ==
    [k \in DOMAIN content |->
        [ feature              |-> content[k].feature,
          max_group_difference |-> content[k].max_group_difference,
          p_value              |-> content[k].p_value ]]

\* pd.DataFrame(results).T has no cell: no feature, or no group key at all.
\* sns.heatmap takes the minimum of the cells and raises ValueError then.
NoCells(rows) == \A k \in DOMAIN rows : rows[k].groups = << >>

\* What the call writes, in order, the features it picks for the bar plots,
\* and the exception that ends it (if any).  The annotations of the scatter
\* plot read significance_scores[column][i] with an integer i on an index of
\* feature labels: pandas before 3.0 takes i as a position, pandas 3.0 as a
\* label and raises KeyError at the first row.
GroupDifferencePlots(frame, fs, group_variable, features_list, output_dir, version) ==
    LET results == RatesFrom(frame, group_variable, features_list, 1, << >>)
        heatmap == << HeatmapPng(output_dir, group_variable), results.rows >>
        path    == SignificanceSortedCsv(output_dir, group_variable)
    IN  IF results.error # ""
        THEN [error |-> results.error, written |-> << >>, top_features |-> << >>]
        ELSE IF NoCells(results.rows)
        THEN [error |-> "ValueError", written |-> << >>, top_features |-> << >>]
        ELSE IF path \notin DOMAIN fs
        THEN [error |-> "FileNotFoundError", written |-> << heatmap >>,
              top_features |-> << >>]
        ELSE LET significance_scores == fs[path]
                 top_features == FirstRows(CsvIndex(significance_scores), TopN)
                 bars == RatesFrom(frame, group_variable, top_features, 1, << >>)
             IN  IF bars.error # ""
                 THEN [error |-> bars.error, written |-> << heatmap >>,
                       top_features |-> top_features]
                 ELSE IF version = "3.x" /\ significance_scores # << >>
                 THEN [error |-> "KeyError",
                       written |-> << heatmap,
                                      << TopFeaturesBarsPng(output_dir, group_variable),
                                         bars.rows >> >>,
                       top_features |-> top_features]
                 ELSE [ error |-> "",
                        written |->
                            << heatmap,
                               << TopFeaturesBarsPng(output_dir, group_variable),
                                  bars.rows >>,
                               << SignificanceScatterPng(output_dir, group_variable),
                                  ScatterPoints(significance_scores) >> >>,
                        top_features |-> top_features ]

VisualizeGroupDifferences(group_variable, features_list, output_dir) ==
    /\ calls < MaxCalls
    /\ \E out \in {GroupDifferencePlots(df, files, group_variable, features_list,
                                       output_dir, pandas)} :
           /\ dirs' = Makedirs(dirs, output_dir)
           /\ files' = WriteAll(files, out.written)
           /\ last' = [ op |-> "visualize_group_differences",
                        group_variable |-> group_variable,
                        features_list |-> features_list,
                        output_dir |-> output_dir, data |-> df,
                        again |-> Again("visualize_group_differences", group_variable,
                                        features_list, output_dir),
                        error |-> out.error, written |-> out.written,
                        top_features |-> out.top_features ]
    /\ calls' = calls + 1
    /\ UNCHANGED << df, argsortTies, mwuOnEmpty, pandas >>

(***************************************************************************)
(* analyze_missing_patterns(df, output_dir)                                *)
(***************************************************************************)
\* What the call writes, in order, and the exception that ends it (if any):
\* each table is written as soon as it is complete.
MissingPatternFiles(frame, output_dir, onEmpty) ==
    LET missing_corr == << LinearCorrelationsCsv(output_dir), MissingCorr(frame) >>
        chi_square_results == ChiSquareResults(frame)
        nonlinear == << NonlinearRelationshipsCsv(output_dir), chi_square_results.rows >>
        survival_analysis == SurvivalAnalysis(frame, onEmpty)
    IN  IF chi_square_results.error # ""
        THEN [error |-> chi_square_results.error, written |-> << missing_corr >>]
        ELSE IF survival_analysis.error # ""
        THEN [error |-> survival_analysis.error,
              written |-> << missing_corr, nonlinear >>]
        ELSE [ error   |-> "",
               written |-> << missing_corr, nonlinear,
                              << SurvivalRelationshipCsv(output_dir),
                                 survival_analysis.rows >> >> ]

AnalyzeMissingPatterns(output_dir) ==
    /\ calls < MaxCalls
    /\ \E out \in {MissingPatternFiles(df, output_dir, mwuOnEmpty)} :
           /\ dirs' = Makedirs(dirs, output_dir)
           /\ files' = WriteAll(files, out.written)
           /\ last' = [ op |-> "analyze_missing_patterns",
                        group_variable |-> "", features_list |-> << >>,
                        output_dir |-> output_dir, data |-> df,
                        again |-> Again("analyze_missing_patterns", "", << >>,
                                        output_dir),
                        error |-> out.error, written |-> out.written,
                        top_features |-> << >> ]
    /\ calls' = calls + 1
    /\ UNCHANGED << df, argsortTies, mwuOnEmpty, pandas >>

(***************************************************************************)
(* initial_data_overview(df, output_dir)  (eda/analysis.py)                *)
(***************************************************************************)
OverviewDirs == { << "eda", "results" >> }

\* os.path.join(output_dir, name)
OverviewCsv(output_dir, name) == << output_dir, << name >> >>

\* len(df)
NumRows(frame) == Cardinality(DOMAIN frame.data[frame.columns[1]])

\* df.dtypes of one column: a column without rows is object; strings are
\* object before pandas 3.0 and str from 3.0 on; integers are int64, and
\* float64 once a cell is NaN.
DtypeOf(frame, col, version) ==
    IF NumRows(frame) = 0 THEN "object"
    ELSE IF col = "g" THEN (IF version = "3.x" THEN "str" ELSE "object")
    ELSE IF MissingRows(frame, col) # {} THEN "float64"
    ELSE "int64"

\* df.memory_usage(deep=True).sum(): 132 bytes of a RangeIndex, 8 bytes a
\* cell, and 50 more for the string object of a cell that holds one (CPython,
\* 64 bits).
MemoryUsage(frame, version) ==
    132 + SumSeq([k \in DOMAIN frame.columns |->
                     IF DtypeOf(frame, frame.columns[k], version) \in {"int64", "float64"}
                     THEN 8 * NumRows(frame)
                     ELSE (8 + 50) * NumRows(frame)])

\* basic_info: a column of numbers, hence of floats.
BasicInfo(frame, version) ==
    << [Metric |-> "Number of Rows", Value |-> Float(NumRows(frame))],
       [Metric |-> "Number of Columns", Value |-> Float(Len(frame.columns))],
       [Metric |-> "Memory Usage (MB)",
        Value  |-> NumpyRound(FromRat(MemoryUsage(frame, version), 1024 * 1024), 2)] >>

\* The distinct elements of s in the order of their first occurrence.
Unique(s) ==
    LET firsts == {k \in DOMAIN s : \A j \in 1..(k - 1) : s[j] # s[k]}
        order  == SortSet(firsts, {ij \in firsts \X firsts : ij[1] < ij[2]})
    IN  [k \in DOMAIN order |-> s[order[k]]]

\* df.dtypes.value_counts().reset_index(): the dtypes counted in the order of
\* their first occurrence, then sorted by decreasing count.
DtypeSummary(frame, version, ties) ==
    LET dtypes  == [k \in DOMAIN frame.columns |->
                       DtypeOf(frame, frame.columns[k], version)]
        uniques == Unique(dtypes)
    IN  SortValues([k \in DOMAIN uniques |->
                       [ dtype |-> uniques[k],
                         count |-> FromInt(Cardinality({j \in DOMAIN dtypes :
                                                           dtypes[j] = uniques[k]})) ]],
                   "count", FALSE, ties)

\* missing_df[missing_df['Missing Count'] > 0]: the columns with a missing
\* value, their count and (missing / len(df) * 100).round(2).
MissingSummary(frame) ==
    [k \in DOMAIN ColumnsWithMissing(frame) |->
        [ Column  |-> ColumnsWithMissing(frame)[k],
          Missing |-> Cardinality(MissingRows(frame, ColumnsWithMissing(frame)[k])),
          Pct     |-> NumpyRound(
                          MulSmall(FromRat(Cardinality(MissingRows(
                                               frame, ColumnsWithMissing(frame)[k])),
                                           NumRows(frame)), 100), 2) ]]

\* The values of a sequence in increasing order.
SortedValues(values) ==
    LET positions == DOMAIN values
        order == SortSet(positions,
                         {ij \in positions \X positions :
                             \/ values[ij[1]] < values[ij[2]]
                             \/ values[ij[1]] = values[ij[2]] /\ ij[1] < ij[2]})
    IN  [k \in positions |-> values[order[k]]]

\* Series.std(): the sample standard deviation, NaN for fewer than two values.
Std(values) ==
    IF Len(values) < 2 THEN NaN
    ELSE SqrtRat(Len(values) * SumSeq([k \in DOMAIN values |-> values[k] * values[k]])
                     - SumSeq(values) * SumSeq(values),
                 Len(values) * (Len(values) - 1))

\* Series.quantile(quarters / 4) of sorted values: linear interpolation
\* between the two values around position (n - 1) * quarters / 4.
Quantile(sorted, quarters) ==
    IF sorted = << >> THEN NaN
    ELSE LET position == (Len(sorted) - 1) * quarters
             lower    == position \div 4 + 1
             weight   == position % 4
         IN  IF weight = 0 THEN Float(sorted[lower])
             ELSE FromRat(sorted[lower] * (4 - weight) + sorted[lower + 1] * weight, 4)

\* describe() of the non-null values of one numeric column, given sorted.
DescribeValues(sorted) ==
    [ stat \in {"count", "mean", "std", "min", "25%", "50%", "75%", "max"} |->
        CASE stat = "count" -> Float(Len(sorted))
          [] stat = "mean"  -> IF sorted = << >> THEN NaN
                               ELSE FromRat(SumSeq(sorted), Len(sorted))
          [] stat = "std"   -> Std(sorted)
          [] stat = "min"   -> IF sorted = << >> THEN NaN ELSE Float(sorted[1])
          [] stat = "25%"   -> Quantile(sorted, 1)
          [] stat = "50%"   -> Quantile(sorted, 2)
          [] stat = "75%"   -> Quantile(sorted, 3)
          [] stat = "max"   -> IF sorted = << >> THEN NaN ELSE Float(sorted[Len(sorted)]) ]

\* select_dtypes(include=[np.number])
NumericColumns(frame, version) ==
    SelectSeq(frame.columns,
              LAMBDA col : DtypeOf(frame, col, version) \in {"int64", "float64"})

\* df.describe(include=[np.number]): one column of statistics per numeric
\* column of the frame.
NumericSummary(frame, version) ==
    [k \in DOMAIN NumericColumns(frame, version) |->
        [ column |-> NumericColumns(frame, version)[k],
          stats  |-> DescribeValues(SortedValues(
                         Dropna(frame.data[NumericColumns(frame, version)[k]],
                                DOMAIN frame.data[NumericColumns(frame, version)[k]]))) ]]

\* select_dtypes(include=['object', 'category']).columns
CategoricalColumns(frame, version, objectSelectsStr) ==
    SelectSeq(frame.columns,
              LAMBDA col : \/ DtypeOf(frame, col, version) = "object"
                           \/ DtypeOf(frame, col, version) = "str" /\ objectSelectsStr)

\* The columns of strings and, by nunique(), their distinct non-null values.
CategoricalCardinality(frame, version, objectSelectsStr) ==
    [k \in DOMAIN CategoricalColumns(frame, version, objectSelectsStr) |->
        [ Column |-> CategoricalColumns(frame, version, objectSelectsStr)[k],
          Unique |-> Cardinality(
                         Range(frame.data[CategoricalColumns(frame, version,
                                                             objectSelectsStr)[k]])
                             \ {<< >>}) ]]

\* What the call writes, in order, and the exception that ends it (if any):
\* each table is written as soon as it is built.  describe() raises ValueError
\* on a frame without a numeric column.
OverviewFiles(frame, output_dir, version, objectSelectsStr, ties) ==
    LET basic_info == << OverviewCsv(output_dir, "basic_info.csv"), BasicInfo(frame, version) >>
        dtype_summary == << OverviewCsv(output_dir, "dtype_summary.csv"),
                            DtypeSummary(frame, version, ties) >>
        missing_df == << OverviewCsv(output_dir, "missing_values.csv"), MissingSummary(frame) >>
    IN  IF NumericColumns(frame, version) = << >>
        THEN [error |-> "ValueError",
              written |-> << basic_info, dtype_summary, missing_df >>]
        ELSE [ error   |-> "",
               written |-> << basic_info, dtype_summary, missing_df,
                              << OverviewCsv(output_dir, "numeric_summary.csv"),
                                 NumericSummary(frame, version) >>,
                              << OverviewCsv(output_dir, "categorical_cardinality.csv"),
                                 CategoricalCardinality(frame, version,
                                                        objectSelectsStr) >> >> ]

\* Whether 'object' selects a column of dtype str is left open for pandas 3.0.
InitialDataOverview(output_dir) ==
    /\ calls < MaxCalls
    /\ \E objectSelectsStr \in (IF pandas = "3.x" THEN BOOLEAN ELSE {TRUE}) :
       \E out \in {OverviewFiles(df, output_dir, pandas, objectSelectsStr, argsortTies)} :
           /\ dirs' = Makedirs(dirs, output_dir)
           /\ files' = WriteAll(files, out.written)
           /\ last' = [ op |-> "initial_data_overview",
                        group_variable |-> "", features_list |-> << >>,
                        output_dir |-> output_dir, data |-> df,
                        again |-> Again("initial_data_overview", "", << >>, output_dir),
                        error |-> out.error, written |-> out.written,
                        top_features |-> << >> ]
    /\ calls' = calls + 1
    /\ UNCHANGED << df, argsortTies, mwuOnEmpty, pandas >>

(***************************************************************************)
(* mount_google_drive(google_drive_dir), install_requirements() and        *)
(* configure_environment(environment, google_drive_dir)  (setup.py)        *)
(***************************************************************************)
DriveDirs == {"cibmtr"}

Environments == {"colab", "local"}

\* Path('/content/drive/MyDrive') / google_drive_dir
DataDir(google_drive_dir) == << "/", "content", "drive", "MyDrive", google_drive_dir >>

\* The steps of configure_environment that can raise, and what they raise:
\* the secrets and the authentication, the mount, pip ending with an error,
\* and no pip executable to run.
SetupFailures ==
    [ credentials  |-> "SecretNotFoundError",
      mount        |-> "RuntimeError",
      requirements |-> "CalledProcessError",
      pip          |-> "FileNotFoundError",
      none         |-> "" ]

\* The record of a call of setup.py: it is given no frame and writes no file.
SetupCall(op, output_dir, error) ==
    [ op |-> op, group_variable |-> "", features_list |-> << >>,
      output_dir |-> output_dir, data |-> << >>, again |-> FALSE,
      error |-> error, written |-> << >>, top_features |-> << >> ]

\* pip install -r requirements.txt has run (to the end or to an error): the
\* installed numpy, scipy and pandas are whatever the requirements, which the
\* repository does not hold, made them.
Reinstalled ==
    /\ argsortTies' \in {"first", "last"}
    /\ mwuOnEmpty' \in {"raise", "nan"}
    /\ pandas' \in {"2.x", "3.x"}

\* data_dir.mkdir(parents=True, exist_ok=True) once the drive is mounted; any
\* exception becomes RuntimeError.
MountGoogleDrive(google_drive_dir) ==
    /\ calls < MaxCalls
    /\ \E mounted \in BOOLEAN :
           /\ dirs' = IF mounted THEN Makedirs(dirs, DataDir(google_drive_dir)) ELSE dirs
           /\ last' = SetupCall("mount_google_drive", DataDir(google_drive_dir),
                                IF mounted THEN "" ELSE SetupFailures.mount)
    /\ calls' = calls + 1
    /\ UNCHANGED << df, files, argsortTies, mwuOnEmpty, pandas >>

\* install_requirements(): CalledProcessError and FileNotFoundError are
\* logged and raised again; without a pip executable nothing is installed.
InstallRequirements ==
    /\ calls < MaxCalls
    /\ \E failed \in {"requirements", "pip", "none"} :
           /\ last' = SetupCall("install_requirements", << >>, SetupFailures[failed])
           /\ IF failed = "pip" THEN UNCHANGED << argsortTies, mwuOnEmpty, pandas >>
              ELSE Reinstalled
    /\ calls' = calls + 1
    /\ UNCHANGED << df, dirs, files >>

\* Only 'colab' is supported; the data directory is made unless a step before
\* the end of the mount raised, and the requirements are installed after it.
ConfigureEnvironment(environment, google_drive_dir) ==
    /\ calls < MaxCalls
    /\ \E failed \in (IF environment # "colab" THEN {"environment"}
                      ELSE DOMAIN SetupFailures) :
           /\ dirs' = IF failed \in {"requirements", "pip", "none"}
                      THEN Makedirs(dirs, DataDir(google_drive_dir)) ELSE dirs
           /\ last' = SetupCall("configure_environment", DataDir(google_drive_dir),
                                IF failed = "environment" THEN "ValueError"
                                ELSE SetupFailures[failed])
           /\ IF failed \in {"requirements", "none"} THEN Reinstalled
              ELSE UNCHANGED << argsortTies, mwuOnEmpty, pandas >>
    /\ calls' = calls + 1
    /\ UNCHANGED << df, files >>

(***************************************************************************)
(* The caller: the frame is the caller's, who may load another one before  *)
(* the next call.                                                          *)
(***************************************************************************)
ReplaceDataset(name) ==
    /\ calls < MaxCalls
    /\ last.op # "none"
    /\ last.data = df
    /\ Datasets[name] # df
    /\ df' = Datasets[name]
    /\ UNCHANGED << dirs, files, last, calls, argsortTies, mwuOnEmpty, pandas >>

Next ==
    \/ \E g \in GroupArgs, fl \in FeatureArgs, dir \in OutputDirs :
           AnalyzeGroupDifferences(g, fl, dir)
    \/ \E g \in GroupArgs, fl \in FeatureArgs, dir \in OutputDirs :
           VisualizeGroupDifferences(g, fl, dir)
    \/ \E dir \in OutputDirs : AnalyzeMissingPatterns(dir)
    \/ \E dir \in OverviewDirs : InitialDataOverview(dir)
    \/ \E dir \in DriveDirs : MountGoogleDrive(dir)
    \/ InstallRequirements
    \/ \E env \in Environments, dir \in DriveDirs : ConfigureEnvironment(env, dir)
    \/ \E name \in DatasetNames : ReplaceDataset(name)

Spec == Init /\ [][Next]_vars

(***************************************************************************)
(* Parts of Spec, each a set of behaviours of Spec: the group-difference   *)
(* functions on two frames with the same columns; the missing-pattern      *)
(* function, the overview and the setup on every frame; the two analyzers  *)
(* on four frames.  A part fixes the platform choices that none of its     *)
(* functions reads; the parts without the setup install nothing, so the    *)
(* libraries stay what they were at the first call.                        *)
(***************************************************************************)
InitGroups ==
    /\ Init
    /\ df \in {Datasets.train, Datasets.other}
    /\ mwuOnEmpty = "raise"

NextGroups ==
    \/ \E g \in GroupArgs, fl \in FeatureArgs, dir \in OutputDirs :
           AnalyzeGroupDifferences(g, fl, dir)
    \/ \E g \in GroupArgs, fl \in FeatureArgs, dir \in OutputDirs :
           VisualizeGroupDifferences(g, fl, dir)
    \/ \E name \in {"train", "other"} : ReplaceDataset(name)

SpecGroups == InitGroups /\ [][NextGroups]_vars

NextPatterns ==
    \/ \E dir \in OutputDirs : AnalyzeMissingPatterns(dir)
    \/ \E dir \in OverviewDirs : InitialDataOverview(dir)
    \/ \E dir \in DriveDirs : MountGoogleDrive(dir)
    \/ InstallRequirements
    \/ \E env \in Environments, dir \in DriveDirs : ConfigureEnvironment(env, dir)
    \/ \E name \in DatasetNames : ReplaceDataset(name)

SpecPatterns == Init /\ [][NextPatterns]_vars

InitAnalyzers ==
    /\ Init
    /\ df \in {Datasets.train, Datasets.allnull, Datasets.nooutcome, Datasets.empty}
    /\ pandas = "2.x"

NextAnalyzers ==
    \/ \E g \in GroupArgs, fl \in FeatureArgs, dir \in OutputDirs :
           AnalyzeGroupDifferences(g, fl, dir)
    \/ \E dir \in OutputDirs : AnalyzeMissingPatterns(dir)
    \/ \E name \in {"train", "allnull", "nooutcome", "empty"} : ReplaceDataset(name)

SpecAnalyzers == InitAnalyzers /\ [][NextAnalyzers]_vars

(***************************************************************************)
(* What a call left behind, read from the record of the last call          *)
(***************************************************************************)
AnalyzerOps == {"analyze_group_differences", "analyze_missing_patterns"}

\* The table the last call wrote at path (no row when it wrote none).
TableAt(written, path) ==
    IF \E k \in DOMAIN written : written[k][1] = path
    THEN written[CHOOSE k \in DOMAIN written : written[k][1] = path][2]
    ELSE << >>

PairwiseRows == TableAt(last.written, NonlinearRelationshipsCsv(last.output_dir))

SurvivalRows == TableAt(last.written, SurvivalRelationshipCsv(last.output_dir))

PvalueSorted ==
    TableAt(last.written, PvalueSortedCsv(last.output_dir, last.group_variable))

SignificanceSorted ==
    TableAt(last.written, SignificanceSortedCsv(last.output_dir, last.group_variable))

HasOutcomeColumns(frame) == HasColumn(frame, "efs") /\ HasColumn(frame, "efs_time")

\* C1: for a dataset with C columns analyze_missing_patterns emits exactly
\* C*(C-1)/2 pairwise rows: every unordered pair of distinct columns is in
\* exactly one row, and no row pairs a column with itself.
C1_PairwiseRowCount ==
    last.op = "analyze_missing_patterns" =>
        LET C == Len(last.data.columns)
            Pair(k) == {PairwiseRows[k].variable1, PairwiseRows[k].variable2}
        IN  /\ 2 * Len(PairwiseRows) = C * (C - 1)
            /\ \A k \in DOMAIN PairwiseRows :
                   PairwiseRows[k].variable1 # PairwiseRows[k].variable2
            /\ \A j, k \in DOMAIN PairwiseRows : j # k => Pair(j) # Pair(k)
            /\ \A col1, col2 \in Range(last.data.columns) :
                   col1 # col2 => \E k \in DOMAIN PairwiseRows : Pair(k) = {col1, col2}

\* C2: on a frame that has the outcome columns, the missingness-outcome table
\* has one row per column with a missing value, in column order, and no row
\* for a column without one.
C2_OutcomeRowPerMissingColumn ==
    (last.op = "analyze_missing_patterns" /\ HasOutcomeColumns(last.data)) =>
        [k \in DOMAIN SurvivalRows |-> SurvivalRows[k].variable]
            = ColumnsWithMissing(last.data)

\* C3: a degenerate statistic (an empty sample, a contingency table without
\* cells) never ends an analyzer's pass: no call ends with the ValueError of
\* a statistical test.
C3_DegenerateNeverAborts ==
    last.op \in AnalyzerOps => last.error # "ValueError"

\* C4: when a required column is absent from the frame it is given (the group
\* column or a feature for analyze_group_differences, an outcome column for
\* analyze_missing_patterns), the analyzer call ends with an error and has
\* written no table.
C4_AbsentColumnWritesNothing ==
    ( \/ /\ last.op = "analyze_group_differences"
         /\ \/ ~HasColumn(last.data, last.group_variable)
            \/ \E k \in DOMAIN last.features_list :
                   ~HasColumn(last.data, last.features_list[k])
      \/ /\ last.op = "analyze_missing_patterns"
         /\ ~HasOutcomeColumns(last.data) )
        => (last.error # "" /\ last.written = << >>)

\* The place of a feature in a list of labels, or in a table.
PlaceIn(labels, feature) == CHOOSE k \in DOMAIN labels : labels[k] = feature

PlaceInTable(rows, feature) == CHOOSE k \in DOMAIN rows : rows[k].feature = feature

AnalyzedGroups == last.op = "analyze_group_differences" /\ last.error = ""

\* The rows of the loop of the last call, before the rounding.
UnroundedRows == Results(last.data, last.group_variable, last.features_list).rows

\* C5: the two tables of analyze_group_differences hold the same rows, one
\* per feature of features_list; one is ascending by p_value, the other
\* descending by significance_score; rows with equal keys keep the order of
\* features_list.
C5_StableSortedViews ==
    AnalyzedGroups =>
        /\ Range(PvalueSorted) = Range(SignificanceSorted)
        /\ Len(PvalueSorted) = Len(last.features_list)
        /\ Len(SignificanceSorted) = Len(last.features_list)
        /\ {PvalueSorted[k].feature : k \in DOMAIN PvalueSorted} = Range(last.features_list)
        /\ \A j, k \in DOMAIN PvalueSorted :
               j < k =>
                   /\ Leq(PvalueSorted[j].p_value, PvalueSorted[k].p_value)
                   /\ PvalueSorted[j].p_value = PvalueSorted[k].p_value
                          => PlaceIn(last.features_list, PvalueSorted[j].feature)
                                 < PlaceIn(last.features_list, PvalueSorted[k].feature)
        /\ \A j, k \in DOMAIN SignificanceSorted :
               j < k =>
                   /\ Leq(SignificanceSorted[k].significance_score,
                          SignificanceSorted[j].significance_score)
                   /\ SignificanceSorted[j].significance_score
                          = SignificanceSorted[k].significance_score
                          => PlaceIn(last.features_list, SignificanceSorted[j].feature)
                                 < PlaceIn(last.features_list, SignificanceSorted[k].feature)

\* C6: the features visualize_group_differences picks for its bar plots are
\* the first TopN rows, in order, of the significance-sorted table that
\* analyze_group_differences gives for the same frame, group variable and
\* feature list (for a call that saved the bar plots).
C6_TopFeaturesOfSameRun ==
    ( /\ last.op = "visualize_group_differences"
      /\ \E k \in DOMAIN last.written :
             last.written[k][1] = TopFeaturesBarsPng(last.output_dir, last.group_variable) )
    =>
        LET same == GroupDifferenceFiles(last.data, last.group_variable,
                                         last.features_list, last.output_dir, argsortTies)
        IN  /\ same.error = ""
            /\ last.top_features = FirstRows(CsvIndex(same.written[2][2]), TopN)

C8_NoSilentDefaultStatistic ==
    /\ AnalyzedGroups =>
           \A k \in DOMAIN PvalueSorted :
               Degenerate(GroupContingency(last.data, last.group_variable,
                                           PvalueSorted[k].feature))
                   => ~(PvalueSorted[k].chi2_statistic = << >>
                            /\ PvalueSorted[k].p_value = One)
    /\ last.op = "analyze_missing_patterns" =>
           \A k \in DOMAIN PairwiseRows :
               Degenerate(PairContingency(last.data, PairwiseRows[k].variable1,
                                          PairwiseRows[k].variable2))
                   => ~(PairwiseRows[k].chi2_statistic = << >>
                            /\ PairwiseRows[k].p_value = One)

\* C9: the tables are ordered by the values before the rounding: a feature
\* with the smaller unrounded p_value comes first in the p-value-sorted
\* table, one with the larger unrounded significance_score comes first in the
\* significance-sorted table.
C9_RankedAtFullPrecision ==
    AnalyzedGroups =>
        \A a, b \in Range(UnroundedRows) :
            /\ Less(a.p_value, b.p_value)
                   => PlaceInTable(PvalueSorted, a.feature)
                          < PlaceInTable(PvalueSorted, b.feature)
            /\ Less(b.significance_score, a.significance_score)
                   => PlaceInTable(SignificanceSorted, a.feature)
                          < PlaceInTable(SignificanceSorted, b.feature)

\* C10: in every row of the loop of analyze_group_differences each
\* percentage is in [0, 100]; max_group_difference is the largest percentage
\* minus the smallest (so it is in [0, 100]); significance_score is
\* max_group_difference / (p_value + 1e-10); and at that max_group_difference
\* the score does not increase when the p-value does (over 0.0, the two
\* smallest p-values the test gives on the frames of the model, one in the
\* middle, and 1.0).
C10_DifferenceAndScore ==
    AnalyzedGroups =>
        \A row \in Range(UnroundedRows) :
            /\ \A key \in DOMAIN row.pct :
                   Leq(<< >>, row.pct[key]) /\ Leq(row.pct[key], Float(100))
            /\ \E hi, lo \in DOMAIN row.pct :
                   /\ \A key \in DOMAIN row.pct :
                          Leq(row.pct[key], row.pct[hi]) /\ Leq(row.pct[lo], row.pct[key])
                   /\ row.max_group_difference = Sub(row.pct[hi], row.pct[lo])
            /\ Leq(<< >>, row.max_group_difference)
            /\ Leq(row.max_group_difference, Float(100))
            /\ row.significance_score
                   = IntDiv(Shift(row.max_group_difference, FracLimbs),
                            Add(row.p_value, EPS))
            /\ LET p_values == { << >>, Chi2Sf(<< 81, 5 >>), Chi2Sf(<< 1280, 99 >>),
                                 Chi2Sf(<< 5, 12 >>), One }
                   score == [p \in p_values |->
                                 SignificanceScore(row.max_group_difference, p)]
               IN  \A p1, p2 \in p_values : Leq(p1, p2) => Leq(score[p2], score[p1])

\* A call that analyzed a feature whose groups differ, with a p-value below 1,
\* and one whose groups are equally often missing without being never missing.
C10_Witness ==
    /\ AnalyzedGroups
    /\ \E row \in Range(UnroundedRows) :
           /\ row.max_group_difference # << >>
           /\ Less(row.p_value, One)
    /\ \E row \in Range(UnroundedRows) :
           /\ row.max_group_difference = << >>
           /\ \E key \in DOMAIN row.pct : row.pct[key] # << >>

=============================================================================
